---------------------------- MODULE Spec2Model ----------------------------
(***************************************************************************)
(* Personal Finance Manager: the Expense record (expense.py), the CSV      *)
(* store with its backups (file_manager.py) and the ExpenseManager         *)
(* controller (expense_manager.py).                                        *)
(*                                                                         *)
(* Representation.                                                         *)
(*  - A Python str that the code inspects character by character (a date, *)
(*    a description) is a sequence of one-character strings; the carriage  *)
(*    return and the line feed are the tokens CR and LF.                   *)
(*  - An amount given to Expense() is a tagged value: a number (a float,   *)
(*    or a str that float() parses) counted in thousandths, a str that     *)
(*    float() rejects, or None.  A stored amount (after round(x, 2)) is    *)
(*    counted in hundredths.                                               *)
(*  - None has one encoding per field: NoneAmount, NoneCategory, NoneText. *)
(*  - A file is [exists, header, rows]: whether the path exists, whether   *)
(*    the header line Date,Category,Amount,Description is in it, and the   *)
(*    data lines, each the tuple of the fields the line holds, in the      *)
(*    column order Date, Category, Amount, Description.                    *)
(***************************************************************************)
EXTENDS Integers, Sequences, FiniteSets, TLC

VARIABLES
    rec_in,            \* the arguments of the last Expense(...) call
    rec_out,           \* its outcome: the record, or the exception raised
    expenses_file,     \* FileManager.expenses_file: the live CSV file
    backup_folder,     \* FileManager.backup_folder: timestamp -> backup file
    clock,             \* datetime.now(), in whole seconds
    saved,             \* the list given to the latest FileManager.save_expenses,
                       \* kept while only loads follow it (<<>> otherwise)
    loaded,            \* the list FileManager.load_expenses returned, when the
                       \* last operation called it (<<>> otherwise)
    expenses,          \* ExpenseManager.expenses
    report_generator,  \* the collection ExpenseManager.report_generator was built from
    last,              \* what the last operation was and what it returned
    fs,                \* the platform and what stands at the paths of the data
                       \* folder, the backup folder and their rename-aside names
    stray_files,       \* names in the backup folder that create_backup did not write
    result             \* what the latest list_backups, get_monthly_expenses or
                       \* get_statistics returned

vars == <<rec_in, rec_out, expenses_file, backup_folder, clock, saved, loaded,
          expenses, report_generator, last, fs, stray_files, result>>

(***************************************************************************)
(* Bounds                                                                  *)
(***************************************************************************)
\* longest collection held in memory or passed to save_expenses
MaxLen == 2
\* last second of the clock; backup names are the seconds 1..MaxClock
MaxClock == 2

(***************************************************************************)
(* Characters and text                                                     *)
(***************************************************************************)
CR == "CR"
LF == "LF"
Whitespace == {" ", CR, LF}
Digits == {"0", "1", "2", "3", "4", "5", "6", "7", "8", "9"}

DigitVal(c) ==
    CASE c = "0" -> 0 [] c = "1" -> 1 [] c = "2" -> 2 [] c = "3" -> 3
      [] c = "4" -> 4 [] c = "5" -> 5 [] c = "6" -> 6 [] c = "7" -> 7
      [] c = "8" -> 8 [] c = "9" -> 9

NoneAmount == [kind |-> "none", v |-> 0]
NoneCategory == "<None>"
NoneText == <<"<None>">>

Num(k) == [kind |-> "num", v |-> k]
NotANumber == [kind |-> "text", v |-> 0]

\* str.strip(): drop the leading and the trailing whitespace
Strip(s) ==
    LET keep == {i \in 1..Len(s) : s[i] \notin Whitespace}
    IN  IF keep = {} THEN <<>>
        ELSE LET lo == CHOOSE i \in keep : \A j \in keep : i <= j
                 hi == CHOOSE i \in keep : \A j \in keep : j <= i
             IN  SubSeq(s, lo, hi)

Letters ==
    <<"a", "b", "c", "d", "e", "f", "g", "h", "i", "j", "k", "l", "m", "n",
      "o", "p", "q", "r", "s", "t", "u", "v", "w", "x", "y", "z">>

\* ord(c) of the characters that the code compares: str comparison, min, max
\* and sort go by code point
CodePoint(c) ==
    IF c \in Digits THEN 48 + DigitVal(c)
    ELSE IF \E i \in 1..Len(Letters) : Letters[i] = c
         THEN 96 + (CHOOSE i \in 1..Len(Letters) : Letters[i] = c)
         ELSE CASE c = LF -> 10 [] c = CR -> 13 [] c = " " -> 32
                [] c = "-" -> 45 [] c = "." -> 46 [] c = "/" -> 47
                [] c = "_" -> 95

\* s < t for two str: the code points at the first position where they
\* differ decide, and a proper prefix comes first
LexLess(s, t) ==
    \E i \in 1..(Len(s) + 1) :
        /\ i - 1 <= Len(t)
        /\ \A j \in 1..(i - 1) : s[j] = t[j]
        /\ IF i = Len(s) + 1 THEN Len(t) >= i
           ELSE i <= Len(t) /\ CodePoint(s[i]) < CodePoint(t[i])

\* min() and max() of a non-empty set of str
MinText(S) == CHOOSE s \in S : \A t \in S : s = t \/ LexLess(s, t)
MaxText(S) == CHOOSE s \in S : \A t \in S : s = t \/ LexLess(t, s)

\* s.startswith(prefix)
StartsWith(s, prefix) ==
    Len(prefix) <= Len(s) /\ SubSeq(s, 1, Len(prefix)) = prefix

\* the slice s[:n]
Slice(s, n) == SubSeq(s, 1, IF Len(s) < n THEN Len(s) ELSE n)

(***************************************************************************)
(* Expense (expense.py)                                                    *)
(***************************************************************************)
CATEGORIES == <<"Food", "Transport", "Entertainment", "Shopping", "Bills",
                "Healthcare", "Education", "Other">>

CategorySet == {CATEGORIES[i] : i \in 1..Len(CATEGORIES)}

\* The numbers of thousandths ending in 5, among those the model draws, whose
\* nearest double lies above the decimal tie, so that round(x, 2) goes up:
\* round(0.005, 2) = 0.01 and round(0.025, 2) = 0.03, while
\* round(0.015, 2) = 0.01 and round(1.005, 2) = 1.0.
TiesRoundedUp == {5, 25}

\* round(amount_float, 2) of a positive number of thousandths, in hundredths
Round2(k) ==
    LET q == k \div 10
        r == k % 10
    IN  IF r < 5 THEN q
        ELSE IF r > 5 THEN q + 1
        ELSE IF k \in TiesRoundedUp THEN q + 1 ELSE q

Raise(type, message) == [ok |-> FALSE, type |-> type, message |-> message]
Return(value) == [ok |-> TRUE, value |-> value]

\* Expense._validate_amount: float(None) raises TypeError, float("abc") and the
\* amount_float <= 0 branch raise ValueError; the except clause catches all
\* three and raises the one ValueError("Amount must be a valid number").
ValidateAmount(amount) ==
    IF amount.kind # "num" THEN Raise("ValueError", "Amount must be a valid number")
    ELSE IF amount.v <= 0
         THEN Raise("ValueError", "Amount must be a valid number")
         ELSE Return(Round2(amount.v))

\* Expense._validate_category
ValidateCategory(category) ==
    IF category \notin CategorySet
    THEN Raise("ValueError", "Category must be one of")
    ELSE Return(category)

IsLeap(y) == (y % 4 = 0 /\ y % 100 # 0) \/ y % 400 = 0

DaysInMonth(y, m) ==
    IF m = 2 THEN (IF IsLeap(y) THEN 29 ELSE 28)
    ELSE IF m \in {4, 6, 9, 11} THEN 30 ELSE 31

\* datetime.strptime(date_str, "%Y-%m-%d") succeeds: the whole string matches
\* (\d\d\d\d)-(1[0-2]|0[1-9]|[1-9])-(3[01]|[12]\d|0[1-9]|[1-9]| [1-9]) and the
\* three numbers are a calendar date (year >= 1).
StrptimeOk(s) ==
    LET hy == {i \in 1..Len(s) : s[i] = "-"}
    IN  /\ Cardinality(hy) = 2
        /\ LET h1 == CHOOSE i \in hy : \A j \in hy : i <= j
               h2 == CHOOSE i \in hy : \A j \in hy : j <= i
               Y  == SubSeq(s, 1, h1 - 1)
               M  == SubSeq(s, h1 + 1, h2 - 1)
               D  == SubSeq(s, h2 + 1, Len(s))
               two(t) == 10 * DigitVal(t[1]) + DigitVal(t[2])
               yv == 1000 * DigitVal(Y[1]) + 100 * DigitVal(Y[2])
                       + 10 * DigitVal(Y[3]) + DigitVal(Y[4])
               mOk == \/ Len(M) = 1 /\ M[1] \in Digits \ {"0"}
                      \/ /\ Len(M) = 2
                         /\ M[1] \in Digits /\ M[2] \in Digits
                         /\ two(M) \in 1..12
               mv == IF Len(M) = 1 THEN DigitVal(M[1]) ELSE two(M)
               dOk == \/ Len(D) = 1 /\ D[1] \in Digits \ {"0"}
                      \/ Len(D) = 2 /\ D[1] = " " /\ D[2] \in Digits \ {"0"}
                      \/ /\ Len(D) = 2
                         /\ D[1] \in Digits /\ D[2] \in Digits
                         /\ two(D) \in 1..31
               dv == IF Len(D) = 1 THEN DigitVal(D[1])
                     ELSE IF D[1] = " " THEN DigitVal(D[2]) ELSE two(D)
           IN  /\ Len(Y) = 4
               /\ \A i \in 1..4 : Y[i] \in Digits
               /\ yv >= 1
               /\ mOk
               /\ dOk
               /\ dv <= DaysInMonth(yv, mv)

\* the year, month and day that datetime.strptime(date_str, "%Y-%m-%d") reads
\* from a string it accepts
Strptime(s) ==
    LET hy == {i \in 1..Len(s) : s[i] = "-"}
        h1 == CHOOSE i \in hy : \A j \in hy : i <= j
        h2 == CHOOSE i \in hy : \A j \in hy : j <= i
        Y  == SubSeq(s, 1, h1 - 1)
        M  == SubSeq(s, h1 + 1, h2 - 1)
        D  == SubSeq(s, h2 + 1, Len(s))
        two(t) == 10 * DigitVal(t[1]) + DigitVal(t[2])
    IN  [year  |-> 1000 * DigitVal(Y[1]) + 100 * DigitVal(Y[2])
                     + 10 * DigitVal(Y[3]) + DigitVal(Y[4]),
         month |-> IF Len(M) = 1 THEN DigitVal(M[1]) ELSE two(M),
         day   |-> IF Len(D) = 1 THEN DigitVal(D[1])
                   ELSE IF D[1] = " " THEN DigitVal(D[2]) ELSE two(D)]

\* Expense._validate_date: strptime(None, ...) raises TypeError, which the
\* except ValueError clause lets through.
ValidateDate(date_str) ==
    IF date_str = NoneText
    THEN Raise("TypeError", "strptime() argument 1 must be str, not None")
    ELSE IF ~StrptimeOk(date_str)
         THEN Raise("ValueError", "Date must be in YYYY-MM-DD format")
         ELSE Return(date_str)

\* Expense.__init__: amount, then category, then date, then description.strip()
\* (None.strip() raises AttributeError).  created_at is not modelled: nothing
\* reads it but to_dict, whose created_at key save_expenses drops.
NewExpense(amount, category, date, description) ==
    LET a == ValidateAmount(amount)
        c == ValidateCategory(category)
        d == ValidateDate(date)
    IN  IF ~a.ok THEN a
        ELSE IF ~c.ok THEN c
        ELSE IF ~d.ok THEN d
        ELSE IF description = NoneText
             THEN Raise("AttributeError", "'NoneType' object has no attribute 'strip'")
             ELSE Return([amount |-> a.value, category |-> c.value,
                          date |-> d.value, description |-> Strip(description)])


(***************************************************************************)
(* Files                                                                   *)
(***************************************************************************)
\* no file at the path
Absent == [exists |-> FALSE, header |-> FALSE, rows |-> <<>>]
\* a file of zero bytes
EmptyFile == [exists |-> TRUE, header |-> FALSE, rows |-> <<>>]
\* the header line followed by the data lines
CsvFile(rows) == [exists |-> TRUE, header |-> TRUE, rows |-> rows]

\* What a write of file f that raises part-way leaves at the destination: the
\* file is created or truncated by open(..., "w"), then some of the text has
\* reached it: nothing, or the header and some of the lines (the model cuts
\* the text at line ends).
Truncations(f) ==
    {EmptyFile}
    \cup (IF f.header
          THEN {CsvFile(SubSeq(f.rows, 1, k)) : k \in 0..(Len(f.rows) - 1)}
          ELSE {})

(***************************************************************************)
(* FileManager (file_manager.py): the pure parts                           *)
(***************************************************************************)
\* str(float) of a stored amount, as csv.DictWriter writes it: a text that
\* float() parses to the same number
AmountText(amount) == Num(amount * 10)

\* save_expenses: the line of one expense, Date, Category, Amount, Description
ToRow(expense) ==
    <<expense.date, expense.category, AmountText(expense.amount),
      expense.description>>

RECURSIVE ToRows(_)
ToRows(records) ==
    IF records = <<>> THEN <<>>
    ELSE <<ToRow(Head(records))>> \o ToRows(Tail(records))

\* what save_expenses writes for a collection
WrittenFile(records) == CsvFile(ToRows(records))

\* load_expenses opens the file without newline="": the text layer turns
\* "\r\n" and a lone "\r" into "\n" before csv.DictReader sees the field.
RECURSIVE UniversalNewlines(_)
UniversalNewlines(s) ==
    IF s = <<>> THEN <<>>
    ELSE IF s[1] = CR
         THEN IF Len(s) >= 2 /\ s[2] = LF
              THEN <<LF>> \o UniversalNewlines(SubSeq(s, 3, Len(s)))
              ELSE <<LF>> \o UniversalNewlines(Tail(s))
         ELSE <<s[1]>> \o UniversalNewlines(Tail(s))

\* csv.DictReader: the value under each column name; a line with fewer fields
\* than the header has None (restval) for the missing ones.
RowDate(row) == IF Len(row) >= 1 THEN UniversalNewlines(row[1]) ELSE NoneText
RowCategory(row) == IF Len(row) >= 2 THEN row[2] ELSE NoneCategory
RowAmount(row) == IF Len(row) >= 3 THEN row[3] ELSE NoneAmount
RowDescription(row) == IF Len(row) >= 4 THEN UniversalNewlines(row[4]) ELSE NoneText

\* the Expense(...) call of load_expenses for one line
RowExpense(row) ==
    NewExpense(RowAmount(row), RowCategory(row), RowDate(row), RowDescription(row))

\* The for loop of load_expenses from line i on, acc being the list so far:
\* DictReader skips an empty line; a ValueError skips the line; any other
\* exception leaves the loop for the outer except clause, and the function
\* returns the list as it stands.
RECURSIVE LoadRows(_, _, _)
LoadRows(rows, i, acc) ==
    IF i > Len(rows) THEN acc
    ELSE IF rows[i] = <<>> THEN LoadRows(rows, i + 1, acc)
    ELSE LET e == RowExpense(rows[i])
         IN  IF e.ok THEN LoadRows(rows, i + 1, Append(acc, e.value))
             ELSE IF e.type = "ValueError" THEN LoadRows(rows, i + 1, acc)
             ELSE acc

\* How reading the live file goes: "ok"; "open" (open() raises); "read" (the
\* read raises once `at` lines have been delivered).
ReadOk == [fail |-> "ok", at |-> 0]
ReadOutcomes(f) ==
    {ReadOk, [fail |-> "open", at |-> 0]}
    \cup {[fail |-> "read", at |-> k] : k \in 0..Len(f.rows)}

\* FileManager.load_expenses: the list it returns
LoadExpensesResult(f, io) ==
    IF ~f.exists THEN <<>>
    ELSE IF io.fail = "open" THEN <<>>
    ELSE IF ~f.header THEN <<>>
    ELSE IF io.fail = "read" THEN LoadRows(SubSeq(f.rows, 1, io.at), 1, <<>>)
    ELSE LoadRows(f.rows, 1, <<>>)

(***************************************************************************)
(* FileManager.__init__: the folders                                       *)
(***************************************************************************)
\* What stands at a path: nothing, a file or a directory.  fs holds the kind
\* of data_folder, of "<data_folder>_old.txt", of backup_folder and of
\* "<backup_folder>_old.txt" (the last two lie inside data_folder), and the
\* platform, which decides what os.rename does with a taken target name.
EntryKinds == {"absent", "file", "dir"}
Platforms == {"posix", "nt"}

\* os.rename(file, target) raises: on every platform when the target is a
\* directory, on Windows also when it is a file (POSIX replaces the file)
RenameRaises(os, target) ==
    target = "dir" \/ (os = "nt" /\ target = "file")

Completed(f) == [fs |-> f, raised |-> FALSE]
Raised(f) == [fs |-> f, raised |-> TRUE]

\* lines 26-33: a file named like the data folder is renamed aside
RenameDataAside(f) ==
    IF f.data # "file" THEN Completed(f)
    ELSE IF RenameRaises(f.os, f.data_old) THEN Raised(f)
    ELSE Completed([f EXCEPT !.data = "absent", !.data_old = "file"])

\* line 36: os.makedirs(data_folder, exist_ok=True)
MakeDataFolder(f) ==
    IF f.data = "file" THEN Raised(f)
    ELSE Completed([f EXCEPT !.data = "dir"])

\* lines 39-46: a file named like the backup folder is renamed aside
RenameBackupsAside(f) ==
    IF f.backups # "file" THEN Completed(f)
    ELSE IF RenameRaises(f.os, f.backups_old) THEN Raised(f)
    ELSE Completed([f EXCEPT !.backups = "absent", !.backups_old = "file"])

\* line 49: os.makedirs(backup_folder, exist_ok=True)
MakeBackupFolder(f) ==
    IF f.data = "file" \/ f.backups = "file" THEN Raised(f)
    ELSE Completed([f EXCEPT !.data = "dir", !.backups = "dir"])

\* lines 24-49: the try block, left at the first call that raises
EnsureFoldersTry(f) ==
    LET s1 == RenameDataAside(f)
        s2 == IF s1.raised THEN s1 ELSE MakeDataFolder(s1.fs)
        s3 == IF s2.raised THEN s2 ELSE RenameBackupsAside(s2.fs)
        s4 == IF s3.raised THEN s3 ELSE MakeBackupFolder(s3.fs)
    IN  s4

\* lines 51-59: the except block.  os.path.exists(backup_folder) is False when
\* data_folder is not a directory, and os.mkdir(backup_folder) then raises.
EnsureFoldersExcept(f) ==
    LET g == IF f.data = "absent" THEN [f EXCEPT !.data = "dir"] ELSE f
    IN  IF g.data = "dir" /\ g.backups # "absent" THEN Completed(g)
        ELSE IF g.data # "dir" THEN Raised(g)
        ELSE Completed([g EXCEPT !.backups = "dir"])

\* FileManager._ensure_folders_exist
EnsureFoldersExist(f) ==
    LET t == EnsureFoldersTry(f)
    IN  IF t.raised THEN EnsureFoldersExcept(t.fs) ELSE t

\* both folders stand, nothing has been renamed aside
FoldersReady(os) ==
    [os |-> os, data |-> "dir", data_old |-> "absent", backups |-> "dir",
     backups_old |-> "absent"]

(***************************************************************************)
(* Inputs the operations are given                                         *)
(***************************************************************************)
Date_2024_01_15 == <<"2", "0", "2", "4", "-", "0", "1", "-", "1", "5">>
Date_2024_02_01 == <<"2", "0", "2", "4", "-", "0", "2", "-", "0", "1">>
Date_2024_1_5   == <<"2", "0", "2", "4", "-", "1", "-", "5">>
Date_2024_02_30 == <<"2", "0", "2", "4", "-", "0", "2", "-", "3", "0">>
Date_2023_02_29 == <<"2", "0", "2", "3", "-", "0", "2", "-", "2", "9">>
Date_2024_13_01 == <<"2", "0", "2", "4", "-", "1", "3", "-", "0", "1">>
Date_15_01_2024 == <<"1", "5", "/", "0", "1", "/", "2", "0", "2", "4">>

\* 0.004, 0.005, 0.015, 0.994, 1.00, 24.99, 0, -1.00, "abc", None
AmountInputs ==
    {Num(4), Num(5), Num(15), Num(994), Num(1000), Num(24990), Num(0),
     Num(-1000), NotANumber, NoneAmount}
CategoryInputs == {"Food", "Bills", "Other", "food", "", NoneCategory}
DateInputs ==
    {Date_2024_01_15, Date_2024_02_01, Date_2024_1_5, Date_2024_02_30,
     Date_2023_02_29, Date_2024_13_01, Date_15_01_2024, <<>>, NoneText}
DescriptionInputs ==
    {<<>>, <<"a">>, <<" ", "a", " ">>, <<"a", CR, "b">>, <<"a", " ", "b", LF>>,
     NoneText}

NoCall == [ok |-> FALSE, type |-> "NoCall", message |-> ""]
NoPath == [kind |-> "none", ts |-> 0]
BackupPath(ts) == [kind |-> "backup", ts |-> ts]
Timestamps == 1..MaxClock

\* no Expense object
NoExpense ==
    [amount |-> 0, category |-> NoneCategory, date |-> NoneText,
     description |-> NoneText]

\* the observation of an operation: its name, what it returned, how its
\* shutil.copy2, its rewrite of the live file and its read went, the path it
\* took or returned, the Expense it was given, and whether it came right
\* after a save_expenses that returned True, after a save_expenses that took
\* its backup, or after a restore_backup that returned True
Observed(op, returned, copy, rewrite, path, io) ==
    [op |-> op, returned |-> returned, copy |-> copy, rewrite |-> rewrite,
     path |-> path, io |-> io, arg |-> NoExpense,
     follows_save |-> (last.op = "save_expenses" /\ last.returned = "True"),
     follows_backup |-> (last.op = "save_expenses" /\ last.copy = "copied"),
     follows_restore |-> (last.op = "restore_backup" /\ last.returned = "True")]

Started ==
    [op |-> "init", returned |-> "None", copy |-> "n/a", rewrite |-> "n/a",
     path |-> NoPath, io |-> ReadOk, arg |-> NoExpense, follows_save |-> FALSE,
     follows_backup |-> FALSE, follows_restore |-> FALSE]

\* no query has been made
NoResult == [kind |-> "none"]

\* the folders stand, the backup folder holds nothing but backups, and no
\* query has been made
Installed ==
    /\ fs = FoldersReady("posix")
    /\ stray_files = {}
    /\ result = NoResult

\* the state in which nothing has been called yet
Idle ==
    /\ rec_out = NoCall
    /\ backup_folder = [ts \in Timestamps |-> Absent]
    /\ clock = 1
    /\ saved = <<>>
    /\ last = Started

(***************************************************************************)
(* Expense construction as an operation                                    *)
(***************************************************************************)
\* Expense(amount, category, date, description) on the arguments in rec_in
ExpenseCall ==
    /\ rec_out = NoCall
    /\ rec_out' = NewExpense(rec_in[1], rec_in[2], rec_in[3], rec_in[4])
    /\ last' = Observed("Expense", IF rec_out'.ok THEN "Expense" ELSE rec_out'.type,
                        "n/a", "n/a", NoPath, ReadOk)
    /\ UNCHANGED <<fs, stray_files, result, rec_in, expenses_file, backup_folder, clock, saved, loaded,
                   expenses, report_generator>>

NoArguments == <<NoneAmount, NoneCategory, NoneText, NoneText>>

InitRecord ==
    /\ Idle
    /\ Installed
    /\ loaded = <<>>
    /\ rec_in \in AmountInputs \X CategoryInputs \X DateInputs \X DescriptionInputs
    /\ expenses_file = Absent
    /\ expenses = <<>>
    /\ report_generator = <<>>

NextRecord == ExpenseCall

SpecRecord == InitRecord /\ [][NextRecord]_vars

\* C5: every Expense that construction returns has a stored amount, held in
\* hundredths (two fractional digits), strictly greater than 0; an input
\* amount whose stored amount would not be positive makes construction fail.
C5_StoredAmountPositive == rec_out.ok => rec_out.value.amount > 0

\* C13: construction validates the amount, then the category, then the date,
\* and reports the first invalid field in that order: an invalid amount as an
\* amount error whose message tells a non-numeric amount from a non-positive
\* one, else an invalid category as a category error, else an invalid date as
\* a date error; no record exists after a failure.
C13_ValidationOrder ==
    rec_out # NoCall =>
        LET amount == rec_in[1]
            badAmount == amount.kind # "num" \/ amount.v <= 0
            badCategory == rec_in[2] \notin CategorySet
            badDate == rec_in[3] = NoneText \/ ~StrptimeOk(rec_in[3])
        IN  /\ (badAmount \/ badCategory \/ badDate) => ~rec_out.ok
            /\ (badAmount /\ amount.kind # "num")
                  => rec_out.message = "Amount must be a valid number"
            /\ (badAmount /\ amount.kind = "num")
                  => rec_out.message = "Amount must be greater than 0"
            /\ (~badAmount /\ badCategory)
                  => rec_out.message = "Category must be one of"
            /\ (~badAmount /\ ~badCategory /\ badDate)
                  => rec_out.message \in
                        {"Date must be in YYYY-MM-DD format",
                         "strptime() argument 1 must be str, not None"}

(***************************************************************************)
(* FileManager.load_expenses as an operation                               *)
(***************************************************************************)
SeqsUpTo(S, n) == UNION {[1..k -> S] : k \in 0..n}

FM_LoadExpenses(io) ==
    /\ io \in ReadOutcomes(expenses_file)
    /\ expenses_file.exists \/ io = ReadOk
    /\ loaded' = LoadExpensesResult(expenses_file, io)
    /\ last' = Observed("load_expenses", "list", "n/a", "n/a", NoPath, io)
    /\ UNCHANGED <<fs, stray_files, result, rec_in, rec_out, expenses_file, backup_folder, clock, saved,
                   expenses, report_generator>>

\* lines a file may hold: every field right or wrong, a second good line, and
\* a good line cut short after 3, 2, 1 and 0 fields
GoodRow == <<Date_2024_01_15, "Food", Num(1000), <<"a">>>>
FileRowInputs ==
    ({Date_2024_01_15, Date_2024_13_01} \X {"Food", "food"}
        \X {Num(1000), Num(0), NotANumber} \X {<<"a">>})
    \cup {<<Date_2024_02_01, "Bills", Num(2500), <<>>>>}
    \cup {SubSeq(GoodRow, 1, n) : n \in 0..3}

InitLoad ==
    /\ Idle
    /\ Installed
    /\ loaded = <<>>
    /\ rec_in = NoArguments
    /\ expenses_file \in {Absent, EmptyFile}
                          \cup {CsvFile(rows) : rows \in SeqsUpTo(FileRowInputs, MaxLen)}
    /\ expenses = <<>>
    /\ report_generator = <<>>

NextLoad == \E io \in ReadOutcomes(expenses_file) : FM_LoadExpenses(io)

SpecLoad == InitLoad /\ [][NextLoad]_vars

\* the records of the lines that are valid records, in file order
RECURSIVE ValidRecordsOf(_)
ValidRecordsOf(rows) ==
    IF rows = <<>> THEN <<>>
    ELSE (IF Len(Head(rows)) >= 4 /\ RowExpense(Head(rows)).ok
          THEN <<RowExpense(Head(rows)).value>> ELSE <<>>)
         \o ValidRecordsOf(Tail(rows))

\* C2: a load whose reads all succeed returns the record of every line that
\* is a valid record, whatever malformed lines stand before or after it.
C2_LoadKeepsEveryValidRow ==
    (last.op = "load_expenses" /\ last.io = ReadOk /\ expenses_file.header)
        => loaded = ValidRecordsOf(expenses_file.rows)

\* C11: a load_expenses during which opening or reading the live file fails,
\* at whatever point of the file, returns the empty list: it does not raise
\* and it does not return the records of the lines read before the failure.
C11_LoadFailureReturnsEmpty ==
    (last.op = "load_expenses" /\ last.io # ReadOk) => loaded = <<>>

(***************************************************************************)
(* FileManager() as an operation                                           *)
(***************************************************************************)
\* FileManager.__init__: the paths are set and _ensure_folders_exist runs; an
\* exception it lets through leaves __init__
FM_Init ==
    LET r == EnsureFoldersExist(fs)
    IN  /\ fs' = r.fs
        /\ last' = Observed("FileManager",
                            IF r.raised THEN "raised" ELSE "FileManager",
                            "n/a", "n/a", NoPath, ReadOk)
        /\ UNCHANGED <<stray_files, result, rec_in, rec_out, expenses_file,
                       backup_folder, clock, saved, loaded, expenses,
                       report_generator>>

\* what may stand at the four paths before the program starts: the two names
\* inside the data folder stand only when the data folder is a directory
FolderStates ==
    {f \in [os : Platforms, data : EntryKinds, data_old : EntryKinds,
            backups : EntryKinds, backups_old : EntryKinds] :
        f.data # "dir" => (f.backups = "absent" /\ f.backups_old = "absent")}

InitFolders ==
    /\ Idle
    /\ stray_files = {}
    /\ result = NoResult
    /\ loaded = <<>>
    /\ rec_in = NoArguments
    /\ fs \in FolderStates
    /\ expenses_file \in {Absent, CsvFile(<<GoodRow>>)}
    /\ fs.data # "dir" => expenses_file = Absent
    /\ expenses = <<>>
    /\ report_generator = <<>>

NextFolders == FM_Init

SpecFolders == InitFolders /\ [][NextFolders]_vars

\* C14: FileManager() completes without raising and leaves the data folder
\* and the backup folder standing as directories, whatever stood at their
\* paths and at the rename-aside names before.
C14_FoldersAlwaysReady ==
    last.op = "FileManager"
        => /\ last.returned = "FileManager"
           /\ fs.data = "dir"
           /\ fs.backups = "dir"

(***************************************************************************)
(* FileManager: backup, save and restore                                   *)
(***************************************************************************)
\* faulty variant: a backup that exists under the name is not overwritten
CreateBackupOutcomesKeepsFirst(f, folder, now) ==
    IF ~f.exists
    THEN {[copy |-> "no_file", folder |-> folder, path |-> NoPath]}
    ELSE {[copy |-> "copied",
           folder |-> IF folder[now].exists THEN folder
                      ELSE [folder EXCEPT ![now] = f],
           path |-> BackupPath(now)]}
         \cup {[copy |-> "failed", folder |-> [folder EXCEPT ![now] = d],
                path |-> NoPath] : d \in {folder[now], f} \cup Truncations(f)}
\* faulty variant: the name of the backup does not follow the clock
CreateBackupOutcomesFixedName(f, folder, now) ==
    IF ~f.exists
    THEN {[copy |-> "no_file", folder |-> folder, path |-> NoPath]}
    ELSE {[copy |-> "copied", folder |-> [folder EXCEPT ![1] = f],
           path |-> BackupPath(1)]}
         \cup {[copy |-> "failed", folder |-> [folder EXCEPT ![1] = d],
                path |-> NoPath] : d \in {folder[1], f} \cup Truncations(f)}
\* FileManager.create_backup at second `now`.  No live file: None.  Otherwise
\* shutil.copy2 to backups/expenses_backup_<now>.csv either succeeds (the path
\* is returned) or raises (None is returned), and a copy that raises leaves
\* the destination as it was, cut short, or complete (copystat raised).
CreateBackupOutcomes(f, folder, now) ==
    IF ~f.exists
    THEN {[copy |-> "no_file", folder |-> folder, path |-> NoPath]}
    ELSE {[copy |-> "copied", folder |-> [folder EXCEPT ![now] = f],
           path |-> BackupPath(now)]}
         \cup {[copy |-> "failed", folder |-> [folder EXCEPT ![now] = d],
                path |-> NoPath] : d \in {folder[now], f} \cup Truncations(f)}

\* The rewrite of save_expenses: open(expenses_file, "w") raises and the file
\* is untouched; or the file is truncated and a write raises; or all is
\* written.
RewriteOutcomes(records, f) ==
    {[rewrite |-> "ok", file |-> WrittenFile(records)],
     [rewrite |-> "open_failed", file |-> f]}
    \cup {[rewrite |-> "write_failed", file |-> t] :
            t \in Truncations(WrittenFile(records))}

\* faulty variant: the save gives up when its backup fails
SaveOutcomesAbortWithoutBackup(records, f, folder, now) ==
    {[returned |-> IF w.rewrite = "ok" /\ b.copy # "failed" THEN "True" ELSE "False",
      file |-> IF b.copy = "failed" THEN f ELSE w.file,
      folder |-> b.folder, copy |-> b.copy,
      rewrite |-> IF b.copy = "failed" THEN "n/a" ELSE w.rewrite] :
        b \in CreateBackupOutcomes(f, folder, now),
        w \in RewriteOutcomes(records, f)}
\* faulty variant: the backup is taken after the rewrite
SaveOutcomesBackupAfterRewrite(records, f, folder, now) ==
    UNION {{[returned |-> IF w.rewrite = "ok" THEN "True" ELSE "False",
             file |-> w.file, folder |-> b.folder, copy |-> b.copy,
             rewrite |-> w.rewrite] :
               b \in CreateBackupOutcomes(w.file, folder, now)} :
             w \in RewriteOutcomes(records, f)}
\* FileManager.save_expenses: create_backup() (its result is dropped), then the
\* rewrite; True when the rewrite went through, False when it raised.
SaveOutcomes(records, f, folder, now) ==
    {[returned |-> IF w.rewrite = "ok" THEN "True" ELSE "False",
      file |-> w.file, folder |-> b.folder, copy |-> b.copy,
      rewrite |-> w.rewrite] :
        b \in CreateBackupOutcomes(f, folder, now),
        w \in RewriteOutcomes(records, f)}

\* the file a path names: a backup, the live file itself, or a path at which
\* nothing exists
LivePath == [kind |-> "live", ts |-> 0]
OtherPath == [kind |-> "other", ts |-> 0]
RestorePaths == {BackupPath(ts) : ts \in Timestamps} \cup {LivePath, OtherPath}

FileAt(path, f, folder) ==
    IF path.kind = "backup" THEN folder[path.ts]
    ELSE IF path.kind = "live" THEN f
    ELSE Absent

\* faulty variant: True is returned whether or not the path exists
RestoreOutcomesReturnsTrue(path, f, folder) ==
    IF ~FileAt(path, f, folder).exists
    THEN {[returned |-> "True", copy |-> "no_file", file |-> f]}
    ELSE {[returned |-> "True", copy |-> "copied", file |-> FileAt(path, f, folder)]}
\* FileManager.restore_backup(backup_file): False when the path does not
\* exist; shutil.copy2 onto the live file otherwise: True when it succeeds,
\* False when it raises (at once for the live file itself: SameFileError),
\* leaving the live file as it was, cut short, or complete.
RestoreOutcomes(path, f, folder) ==
    IF ~FileAt(path, f, folder).exists
    THEN {[returned |-> "False", copy |-> "no_file", file |-> f]}
    ELSE IF path.kind = "live"
    THEN {[returned |-> "False", copy |-> "failed", file |-> f]}
    ELSE LET src == FileAt(path, f, folder)
         IN  {[returned |-> "True", copy |-> "copied", file |-> src]}
             \cup {[returned |-> "False", copy |-> "failed", file |-> d] :
                     d \in {f, src} \cup Truncations(src)}

\* one second passes
Tick ==
    /\ clock < MaxClock
    /\ clock' = clock + 1
    /\ last' = Observed("tick", "None", "n/a", "n/a", NoPath, ReadOk)
    /\ saved' = <<>>
    /\ loaded' = <<>>
    /\ UNCHANGED <<fs, stray_files, result, rec_in, rec_out, expenses_file, backup_folder, expenses,
                   report_generator>>

FM_CreateBackup ==
    \E b \in CreateBackupOutcomes(expenses_file, backup_folder, clock) :
        /\ backup_folder' = b.folder
        /\ last' = Observed("create_backup",
                            IF b.copy = "copied" THEN "path" ELSE "None",
                            b.copy, "n/a", b.path, ReadOk)
        /\ saved' = <<>>
        /\ loaded' = <<>>
        /\ UNCHANGED <<fs, stray_files, result, rec_in, rec_out, expenses_file, clock, expenses,
                       report_generator>>

\* faulty variant: the restore also reloads the collection
FM_RestoreBackupReloads(path) ==
    \E r \in RestoreOutcomes(path, expenses_file, backup_folder) :
        /\ expenses_file' = r.file
        /\ last' = Observed("restore_backup", r.returned, r.copy, "n/a", path, ReadOk)
        /\ saved' = <<>>
        /\ loaded' = <<>>
        /\ expenses' = LoadExpensesResult(r.file, ReadOk)
        /\ report_generator' = expenses'
        /\ UNCHANGED <<fs, stray_files, result, rec_in, rec_out, backup_folder, clock>>
FM_RestoreBackup(path) ==
    \E r \in RestoreOutcomes(path, expenses_file, backup_folder) :
        /\ expenses_file' = r.file
        /\ last' = Observed("restore_backup", r.returned, r.copy, "n/a", path, ReadOk)
        /\ saved' = <<>>
        /\ loaded' = <<>>
        /\ UNCHANGED <<fs, stray_files, result, rec_in, rec_out, backup_folder, clock, expenses,
                       report_generator>>

FM_SaveExpenses(records) ==
    \E o \in SaveOutcomes(records, expenses_file, backup_folder, clock) :
        /\ expenses_file' = o.file
        /\ backup_folder' = o.folder
        /\ saved' = records
        /\ loaded' = <<>>
        /\ last' = Observed("save_expenses", o.returned, o.copy, o.rewrite,
                            NoPath, ReadOk)
        /\ UNCHANGED <<fs, stray_files, result, rec_in, rec_out, clock, expenses, report_generator>>

\* "expenses_backup_" and ".csv" of create_backup's file name
BackupPrefix ==
    <<"e", "x", "p", "e", "n", "s", "e", "s", "_", "b", "a", "c", "k", "u", "p", "_">>
CsvSuffix == <<".", "c", "s", "v">>

DigitChar(n) == CHOOSE c \in Digits : DigitVal(c) = n

\* datetime.now().strftime("%Y%m%d_%H%M%S") at second ts: fifteen characters,
\* every number zero-padded to its width (here 2024-01-15 12:00:ts)
Stamp(ts) ==
    <<"2", "0", "2", "4", "0", "1", "1", "5", "_", "1", "2", "0", "0",
      DigitChar(ts \div 10), DigitChar(ts % 10)>>

\* the name of the backup taken at second ts
BackupFilename(ts) == BackupPrefix \o Stamp(ts) \o CsvSuffix

\* s.endswith(suffix)
EndsWith(s, suffix) ==
    Len(suffix) <= Len(s)
        /\ SubSeq(s, Len(s) - Len(suffix) + 1, Len(s)) = suffix

\* names other than create_backup's that the backup folder may hold:
\* desktop.ini and notes.csv
StrayNames ==
    {<<"d", "e", "s", "k", "t", "o", "p", ".", "i", "n", "i">>,
     <<"n", "o", "t", "e", "s", ".", "c", "s", "v">>}

StrayPath(name) == [kind |-> "stray", ts |-> 0, name |-> name]

\* os.path.getsize, counted in lines: the model cuts files at line ends
FileSize(f) == IF f.header THEN 1 + Len(f.rows) ELSE 0

\* os.listdir(backup_folder) with, for each name, the path joined to the
\* folder and the size of the file (a stray file is empty)
FolderEntries(folder, strays) ==
    {[filename |-> BackupFilename(ts), path |-> BackupPath(ts),
      size |-> FileSize(folder[ts])] : ts \in {t \in Timestamps : folder[t].exists}}
    \cup {[filename |-> name, path |-> StrayPath(name), size |-> 0] :
            name \in strays}

\* list.sort(key=filename, reverse=True) of dicts whose filenames differ
RECURSIVE SortedByFilename(_, _)
SortedByFilename(entries, reverse) ==
    IF entries = {} THEN <<>>
    ELSE LET first ==
               CHOOSE e \in entries : \A o \in entries :
                  \/ o = e
                  \/ IF reverse THEN LexLess(o.filename, e.filename)
                     ELSE LexLess(e.filename, o.filename)
         IN  <<first>> \o SortedByFilename(entries \ {first}, reverse)

\* faulty variant: the sort is ascending
ListBackupsAscending(folder, strays, listed) ==
    IF ~listed THEN <<>>
    ELSE SortedByFilename({e \in FolderEntries(folder, strays) :
                              EndsWith(e.filename, CsvSuffix)}, FALSE)
\* FileManager.list_backups: the entries of the names that end in ".csv",
\* sorted by filename, greatest first; [] when os.listdir or os.path.getsize
\* raises
ListBackups(folder, strays, listed) ==
    IF ~listed THEN <<>>
    ELSE SortedByFilename({e \in FolderEntries(folder, strays) :
                              EndsWith(e.filename, CsvSuffix)}, TRUE)

ListFailed == [fail |-> "listdir", at |-> 0]

FM_ListBackups(io) ==
    /\ io \in {ReadOk, ListFailed}
    /\ fs.backups # "dir" => io = ListFailed
    /\ result' = [kind |-> "backups",
                  value |-> ListBackups(backup_folder, stray_files, io = ReadOk)]
    /\ last' = Observed("list_backups", "list", "n/a", "n/a", NoPath, io)
    /\ UNCHANGED <<fs, stray_files, rec_in, rec_out, expenses_file, backup_folder,
                   clock, saved, loaded, expenses, report_generator>>

\* Expense objects a caller holds: built by Expense(...) from these arguments
\* (1.00, 25.00 and 0.004)
SampleArguments ==
    {<<Num(1000), "Food", Date_2024_01_15, <<" ", "a">>>>,
     <<Num(4), "Bills", Date_2024_1_5, <<>>>>}

SampleExpenses ==
    {NewExpense(x[1], x[2], x[3], x[4]).value : x \in SampleArguments}

InitStore ==
    /\ Idle
    /\ Installed
    /\ loaded = <<>>
    /\ rec_in = NoArguments
    /\ expenses_file \in {Absent, CsvFile(<<GoodRow>>)}
    /\ expenses = <<>>
    /\ report_generator = <<>>

NextStore ==
    \/ Tick
    \/ FM_CreateBackup
    \/ \E path \in RestorePaths : FM_RestoreBackup(path)
    \/ \E records \in SeqsUpTo(SampleExpenses, MaxLen) : FM_SaveExpenses(records)
    \/ \E io \in ReadOutcomes(expenses_file) : FM_LoadExpenses(io)

SpecStore == InitStore /\ [][NextStore]_vars

\* the backup folder as the backup menu of main.py works on it: backups are
\* taken and listed while the clock runs
InitList ==
    /\ Idle
    /\ fs = FoldersReady("posix")
    /\ stray_files \in SUBSET StrayNames
    /\ result = NoResult
    /\ loaded = <<>>
    /\ rec_in = NoArguments
    /\ expenses_file \in {Absent, CsvFile(<<GoodRow>>)}
    /\ expenses = <<>>
    /\ report_generator = <<>>

NextList ==
    \/ Tick
    \/ FM_CreateBackup
    \/ \E io \in {ReadOk, ListFailed} : FM_ListBackups(io)

SpecList == InitList /\ [][NextList]_vars

M_LoadExpenses(io) ==
    /\ io \in ReadOutcomes(expenses_file)
    /\ expenses_file.exists \/ io = ReadOk
    /\ expenses' = LoadExpensesResult(expenses_file, io)
    /\ report_generator' = expenses'
    /\ loaded' = expenses'
    /\ saved' = <<>>
    /\ last' = Observed("Manager.load_expenses", "None", "n/a", "n/a", NoPath, io)
    /\ UNCHANGED <<fs, stray_files, result, rec_in, rec_out, expenses_file, backup_folder, clock>>

\* ExpenseManager.save_expenses, as main.py calls it on exit
M_SaveExpenses ==
    \E o \in SaveOutcomes(expenses, expenses_file, backup_folder, clock) :
        /\ expenses_file' = o.file
        /\ backup_folder' = o.folder
        /\ saved' = expenses
        /\ loaded' = <<>>
        /\ last' = Observed("Manager.save_expenses", o.returned, o.copy,
                            o.rewrite, NoPath, ReadOk)
        /\ UNCHANGED <<fs, stray_files, result, rec_in, rec_out, clock, expenses, report_generator>>

\* faulty variant: the ReportGenerator is built before the append
AddExpenseStaleReport(collection, expense) ==
    [expenses |-> Append(collection, expense),
     report_generator |-> collection,
     to_save |-> Append(collection, expense)]
\* faulty variant: the list is saved before the append
AddExpenseSaveFirst(collection, expense) ==
    [expenses |-> Append(collection, expense),
     report_generator |-> Append(collection, expense),
     to_save |-> collection]
\* add_expense up to the save: the append, the ReportGenerator built from the
\* list after it, and the list handed to save_expenses
AddExpenseEffect(collection, expense) ==
    [expenses |-> Append(collection, expense),
     report_generator |-> Append(collection, expense),
     to_save |-> Append(collection, expense)]

\* faulty variant: True whatever the save returned
AddExpenseReturnsTrue(success) == "True"
\* add_expense returns what save_expenses returned
AddExpenseReturn(success) == success


\* ExpenseManager.add_expense(expense)
M_AddExpense(expense) ==
    /\ Len(expenses) < MaxLen
    /\ LET e == AddExpenseEffect(expenses, expense)
       IN  \E o \in SaveOutcomes(e.to_save, expenses_file, backup_folder, clock) :
              /\ expenses' = e.expenses
              /\ report_generator' = e.report_generator
              /\ expenses_file' = o.file
              /\ backup_folder' = o.folder
              /\ saved' = e.to_save
              /\ loaded' = <<>>
              /\ last' = [Observed("add_expense", AddExpenseReturn(o.returned),
                                   o.copy, o.rewrite, NoPath, ReadOk)
                            EXCEPT !.arg = expense]
    /\ UNCHANGED <<fs, stray_files, result, rec_in, rec_out, clock>>

\* ExpenseManager.clear_all_expenses
M_ClearAllExpenses ==
    \E o \in SaveOutcomes(<<>>, expenses_file, backup_folder, clock) :
        /\ expenses' = <<>>
        /\ report_generator' = <<>>
        /\ expenses_file' = o.file
        /\ backup_folder' = o.folder
        /\ saved' = <<>>
        /\ loaded' = <<>>
        /\ last' = Observed("clear_all_expenses", "None", o.copy, o.rewrite,
                            NoPath, ReadOk)
        /\ UNCHANGED <<fs, stray_files, result, rec_in, rec_out, clock>>

\* What generate_sample_data builds one Expense from: round(uniform(50, 5000),
\* 2), a category of the list, a zero-padded date of the last 30 days, one of
\* the 16 descriptions.
GeneratedArguments ==
    {<<Num(50000), "Food", Date_2024_01_15, <<"T", "a", "x", "i">>>>}

GeneratedExpenses ==
    {NewExpense(x[1], x[2], x[3], x[4]).value : x \in GeneratedArguments}

\* ExpenseManager.generate_sample_data(count): the collection is replaced by
\* count generated expenses (none for count <= 0)
M_GenerateSampleData(count) ==
    \E generated \in [1..(IF count > 0 THEN count ELSE 0) -> GeneratedExpenses] :
      \E o \in SaveOutcomes(generated, expenses_file, backup_folder, clock) :
        /\ expenses' = generated
        /\ report_generator' = generated
        /\ expenses_file' = o.file
        /\ backup_folder' = o.folder
        /\ saved' = generated
        /\ loaded' = <<>>
        /\ last' = Observed("generate_sample_data", "None", o.copy, o.rewrite,
                            NoPath, ReadOk)
        /\ UNCHANGED <<fs, stray_files, result, rec_in, rec_out, clock>>

\* the Expense objects add_expense_menu of main.py hands to add_expense
EnteredArguments == {<<Num(1000), "Food", Date_2024_01_15, <<"a", " ">>>>}

EnteredExpenses ==
    {NewExpense(x[1], x[2], x[3], x[4]).value : x \in EnteredArguments}

\* ExpenseManager(): the live file is whatever earlier runs left, and
\* __init__ has loaded it
Init ==
    /\ Idle
    /\ Installed
    /\ rec_in = NoArguments
    /\ expenses_file \in {Absent, CsvFile(<<GoodRow>>)}
    /\ \E io \in ReadOutcomes(expenses_file) :
          expenses = LoadExpensesResult(expenses_file, io)
    /\ report_generator = expenses
    /\ loaded = expenses

Next ==
    \/ Tick
    \/ FM_CreateBackup
    \/ \E path \in RestorePaths : FM_RestoreBackup(path)
    \/ \E io \in ReadOutcomes(expenses_file) : M_LoadExpenses(io)
    \/ M_SaveExpenses
    \/ \E expense \in EnteredExpenses : M_AddExpense(expense)
    \/ M_ClearAllExpenses
    \/ \E count \in 0..MaxLen : M_GenerateSampleData(count)

Spec == Init /\ [][Next]_vars

(***************************************************************************)
(* ExpenseManager: the queries                                             *)
(***************************************************************************)
Month_2024_01 == <<"2", "0", "2", "4", "-", "0", "1">>
Month_2024_02 == <<"2", "0", "2", "4", "-", "0", "2">>
Month_2024_10 == <<"2", "0", "2", "4", "-", "1", "0">>
Month_2024_1  == <<"2", "0", "2", "4", "-", "1">>
Year_2024     == <<"2", "0", "2", "4">>
Date_2024_10_01 == <<"2", "0", "2", "4", "-", "1", "0", "-", "0", "1">>

\* utils.get_current_month(): datetime.now().strftime("%Y-%m")
CurrentMonths == {Month_2024_01, Month_2024_02}

\* the list comprehension of get_monthly_expenses
MonthlyExpenses(collection, month) ==
    SelectSeq(collection, LAMBDA exp : StartsWith(exp.date, month))

\* ExpenseManager.get_monthly_expenses(month): a month that is None or ""
\* stands for the current month
M_GetMonthlyExpenses(month, current_month) ==
    LET effective == IF month = NoneText \/ month = <<>>
                     THEN current_month ELSE month
    IN  /\ result' = [kind |-> "monthly", month |-> month,
                      value |-> MonthlyExpenses(expenses, effective)]
        /\ last' = Observed("get_monthly_expenses", "list", "n/a", "n/a",
                            NoPath, ReadOk)
        /\ UNCHANGED <<fs, stray_files, rec_in, rec_out, expenses_file,
                       backup_folder, clock, saved, loaded, expenses,
                       report_generator>>

RECURSIVE SumAmounts(_)
SumAmounts(collection) ==
    IF collection = <<>> THEN 0
    ELSE Head(collection).amount + SumAmounts(Tail(collection))

\* get_statistics: {} for an empty collection; otherwise the totals (in
\* hundredths), the average as the quotient total / count, the least and the
\* greatest amount, min(dates) and max(dates), the total and the count under
\* each key exp.date[:7], and the total of each category present.
Statistics(collection) ==
    IF collection = <<>> THEN [kind |-> "statistics", empty |-> TRUE]
    ELSE LET idx == 1..Len(collection)
             dates == {collection[i].date : i \in idx}
             amounts == {collection[i].amount : i \in idx}
             months == {Slice(collection[i].date, 7) : i \in idx}
             categories == {collection[i].category : i \in idx}
         IN  [kind |-> "statistics", empty |-> FALSE,
              total |-> SumAmounts(collection),
              count |-> Len(collection),
              average |-> [total |-> SumAmounts(collection),
                           count |-> Len(collection)],
              min |-> CHOOSE a \in amounts : \A b \in amounts : a <= b,
              max |-> CHOOSE a \in amounts : \A b \in amounts : b <= a,
              start_date |-> MinText(dates),
              end_date |-> MaxText(dates),
              monthly_stats |->
                  [m \in months |->
                      LET of == SelectSeq(collection,
                                          LAMBDA exp : Slice(exp.date, 7) = m)
                      IN  [total |-> SumAmounts(of), count |-> Len(of)]],
              category_totals |->
                  [c \in categories |->
                      SumAmounts(SelectSeq(collection,
                                           LAMBDA exp : exp.category = c))]]

\* ExpenseManager.get_statistics()
M_GetStatistics ==
    /\ result' = Statistics(expenses)
    /\ last' = Observed("get_statistics", "dict", "n/a", "n/a", NoPath, ReadOk)
    /\ UNCHANGED <<fs, stray_files, rec_in, rec_out, expenses_file,
                   backup_folder, clock, saved, loaded, expenses,
                   report_generator>>

\* Expense objects a collection may hold: every date here passes
\* _validate_date (1.00, 25.00, 1.00 and 49.90)
QueryArguments ==
    {<<Num(1000), "Food", Date_2024_01_15, <<"a">>>>,
     <<Num(2500), "Bills", Date_2024_02_01, <<>>>>,
     <<Num(1000), "Food", Date_2024_1_5, <<"b">>>>,
     <<Num(4990), "Other", Date_2024_10_01, <<"c">>>>}

QueryExpenses ==
    {NewExpense(x[1], x[2], x[3], x[4]).value : x \in QueryArguments}

MonthInputs ==
    {Month_2024_01, Month_2024_02, Month_2024_10, Month_2024_1, Year_2024,
     <<>>, NoneText}

\* a manager whose collection is saved in the live file
InitQuery ==
    /\ Idle
    /\ Installed
    /\ loaded = <<>>
    /\ rec_in = NoArguments
    /\ expenses \in SeqsUpTo(QueryExpenses, MaxLen)
    /\ report_generator = expenses
    /\ expenses_file = WrittenFile(expenses)

NextQuery ==
    \/ \E month \in MonthInputs, current_month \in CurrentMonths :
          M_GetMonthlyExpenses(month, current_month)
    \/ M_GetStatistics

SpecQuery == InitQuery /\ [][NextQuery]_vars

\* C15: get_monthly_expenses(month), for every month given, returns exactly
\* the records of the collection whose date's first 7 characters equal
\* month, in collection order, and no other record.
C15_MonthlyFilterExact ==
    (last.op = "get_monthly_expenses" /\ result.month # NoneText
        /\ result.month # <<>>)
        => result.value
             = SelectSeq(expenses, LAMBDA exp : Slice(exp.date, 7) = result.month)

\* the calendar month of a stored date, and its place in the calendar
CalendarMonth(date) == <<Strptime(date).year, Strptime(date).month>>
DayNumber(date) ==
    Strptime(date).year * 10000 + Strptime(date).month * 100 + Strptime(date).day

\* C16: for a non-empty collection, get_statistics reports as start_date and
\* end_date the dates of the chronologically earliest and latest records, and
\* its per-month breakdown counts under the key of each record all the
\* records of that record's calendar month.
C16_StatisticsDates ==
    (last.op = "get_statistics" /\ expenses # <<>>)
        => LET idx == 1..Len(expenses)
           IN  /\ \A i \in idx :
                     /\ DayNumber(result.start_date) <= DayNumber(expenses[i].date)
                     /\ DayNumber(expenses[i].date) <= DayNumber(result.end_date)
               /\ \A i \in idx :
                     result.monthly_stats[Slice(expenses[i].date, 7)].count
                       = Cardinality({j \in idx :
                             CalendarMonth(expenses[j].date)
                               = CalendarMonth(expenses[i].date)})

\* C1: save_expenses(records) returning True, followed at once by a load whose
\* reads all succeed, returns the saved records: as many, with the same
\* amount, category, date and description, in the same order.
C1_SaveLoadRoundTrip ==
    (last.op = "load_expenses" /\ last.follows_save /\ last.io = ReadOk)
        => loaded = saved

\* C3: a save_expenses that returns False leaves the live file exactly as it
\* was before the call.
C3_FailedSaveKeepsLiveFile ==
    [][(last'.op = "save_expenses" /\ last'.returned = "False")
          => expenses_file' = expenses_file]_vars

\* C4 as stated: after a save_expenses that returns False while a live file
\* existed, some backup holds the live file's content from before the call.
C4_FailedSaveLeavesBackup ==
    [][(last'.op = "save_expenses" /\ last'.returned = "False"
          /\ expenses_file.exists)
          => \E ts \in Timestamps : backup_folder'[ts] = expenses_file]_vars

\* C4 as amended: after a save_expenses that returns False while a live file
\* existed and whose backup step succeeded (create_backup copied the file),
\* some backup holds the live file's content from before the call.
C4_FailedSaveAfterBackupLeavesBackup ==
    [][(last'.op = "save_expenses" /\ last'.returned = "False"
          /\ last'.copy = "copied" /\ expenses_file.exists)
          => \E ts \in Timestamps : backup_folder'[ts] = expenses_file]_vars

\* a save has failed after its backup was taken, the live file is cut short
\* and the backup holds lines the live file has lost
C4_Witness ==
    /\ last.op = "save_expenses" /\ last.returned = "False"
    /\ last.copy = "copied" /\ last.rewrite = "write_failed"
    /\ \E ts \in Timestamps :
          /\ backup_folder[ts].exists
          /\ Len(backup_folder[ts].rows) > Len(expenses_file.rows)

\* C9: when the backup step of save_expenses fails, the rewrite is still
\* attempted and alone decides the result: when it goes through, the live
\* file holds the given records and True is returned; when it raises, False.
C9_SaveProceedsWithoutBackup ==
    (last.op = "save_expenses" /\ last.copy = "failed")
        => /\ last.rewrite \in {"ok", "open_failed", "write_failed"}
           /\ last.rewrite = "ok"
                => (last.returned = "True" /\ expenses_file = WrittenFile(saved))
           /\ last.rewrite # "ok" => last.returned = "False"

\* the backup of a save failed and the save rewrote the live file with a
\* non-empty collection and returned True
C9_Witness ==
    /\ last.op = "save_expenses" /\ last.copy = "failed"
    /\ last.returned = "True"
    /\ saved # <<>>
    /\ expenses_file = WrittenFile(saved)

\* C10: restore_backup(path) whose path exists and whose copy succeeds returns
\* True and the live file then equals the backup; when the path does not
\* exist it returns False and changes neither the live file nor the backups.
C10_RestoreBackup ==
    [][last'.op = "restore_backup"
          => LET src == FileAt(last'.path, expenses_file, backup_folder)
             IN  /\ (src.exists /\ last'.copy = "copied")
                      => /\ last'.returned = "True"
                         /\ expenses_file' = src
                         /\ expenses_file' = FileAt(last'.path, expenses_file',
                                                    backup_folder')
                 /\ ~src.exists
                      => /\ last'.returned = "False"
                         /\ expenses_file' = expenses_file
                         /\ backup_folder' = backup_folder]_vars

\* a restore has returned True and the live file holds the lines of the
\* backup it was given
C10_Witness ==
    /\ last.op = "restore_backup" /\ last.returned = "True"
    /\ last.path.kind = "backup"
    /\ backup_folder[last.path.ts].rows # <<>>
    /\ expenses_file = backup_folder[last.path.ts]

Mutations == {"add_expense", "clear_all_expenses", "generate_sample_data"}

\* C6: after an ExpenseManager mutation whose save went through, the live
\* file is the header line followed by one line per record of the in-memory
\* collection, in collection order.
C6_FileMirrorsCollection ==
    (last.op \in Mutations /\ last.rewrite = "ok")
        => /\ expenses_file.exists /\ expenses_file.header
           /\ Len(expenses_file.rows) = Len(expenses)
           /\ \A i \in 1..Len(expenses) : expenses_file.rows[i] = ToRow(expenses[i])

\* an add to a non-empty collection has been saved over a live file that held
\* another collection, which is now in a backup
C6_Witness ==
    /\ last.op = "add_expense" /\ last.rewrite = "ok" /\ last.copy = "copied"
    /\ Len(expenses) = 2
    /\ expenses_file = WrittenFile(expenses)
    /\ \E ts \in Timestamps :
          backup_folder[ts].exists /\ backup_folder[ts] # expenses_file

\* C7: add_expense(record) appends the record at the end of the collection;
\* it returns False when the save fails, the record staying in the
\* collection, and True when the save succeeds.
C7_AddExpense ==
    [][last'.op = "add_expense"
          => /\ expenses' = Append(expenses, last'.arg)
             /\ last'.rewrite # "ok"
                  => (last'.returned = "False"
                      /\ \E i \in 1..Len(expenses') : expenses'[i] = last'.arg)
             /\ last'.rewrite = "ok" => last'.returned = "True"]_vars

\* an add has returned False: the record is the last of the collection and
\* the live file does not hold the collection
C7_Witness ==
    /\ last.op = "add_expense" /\ last.returned = "False"
    /\ expenses # <<>>
    /\ expenses[Len(expenses)] = last.arg
    /\ expenses_file # WrittenFile(expenses)

\* C8: whatever operation was the last to complete, and whether or not its
\* save went through, the ReportGenerator the manager holds was built from
\* the collection as it now is.
C8_ReportGeneratorCurrent == report_generator = expenses

\* an add has grown the collection, its save has failed, and the
\* ReportGenerator holds the grown collection
C8_Witness ==
    /\ last.op = "add_expense" /\ last.returned = "False"
    /\ Len(expenses) = 2
    /\ report_generator = expenses

\* C12: create_backup(), when the live file exists and the copy succeeds,
\* returns the path of the backup named after the current second, that backup
\* then holds the content of the live file, and the live file is unchanged;
\* when there is no live file or the copy fails it returns None.
C12_CreateBackup ==
    [][last'.op = "create_backup"
          => /\ (expenses_file.exists /\ last'.copy = "copied")
                  => /\ last'.returned = "path"
                     /\ last'.path = BackupPath(clock)
                     /\ backup_folder'[clock] = expenses_file
                     /\ \A ts \in Timestamps \ {clock} :
                           backup_folder'[ts] = backup_folder[ts]
             /\ (~expenses_file.exists \/ last'.copy # "copied")
                  => /\ last'.returned = "None"
                     /\ last'.path = NoPath
             /\ expenses_file' = expenses_file]_vars

\* a backup of a live file that holds records has been taken in the second
\* second: the path returned names it and it holds the live file's lines
C12_Witness ==
    /\ last.op = "create_backup" /\ last.returned = "path"
    /\ clock = 2
    /\ last.path = BackupPath(2)
    /\ expenses_file.rows # <<>>
    /\ backup_folder[2] = expenses_file

\* C18 as stated: after two consecutive saves of an existing file within one
\* second, both of which took their backup and returned True, the backup
\* named after that second holds the live file's content from before the
\* second save, the other backups are as they were, and the content from
\* before the first save is in no backup.
C18_SameSecondBackups ==
    [][(last.op = "save_expenses" /\ last.copy = "copied"
          /\ last.returned = "True"
          /\ last'.op = "save_expenses" /\ last'.copy = "copied"
          /\ last'.returned = "True"
          /\ clock' = clock)
          => LET before_first == backup_folder[clock]
                 before_second == expenses_file
             IN  /\ backup_folder'[clock] = before_second
                 /\ \A ts \in Timestamps \ {clock} :
                       backup_folder'[ts] = backup_folder[ts]
                 /\ \A ts \in Timestamps :
                       backup_folder'[ts] # before_first]_vars

\* C18 as amended: ... and the content from before the first save is in no
\* backup, unless it equals the content from before the second save or a
\* backup taken in another second holds it.
C18_SameSecondLastWriteWins ==
    [][(last.op = "save_expenses" /\ last.copy = "copied"
          /\ last.returned = "True"
          /\ last'.op = "save_expenses" /\ last'.copy = "copied"
          /\ last'.returned = "True"
          /\ clock' = clock)
          => LET before_first == backup_folder[clock]
                 before_second == expenses_file
             IN  /\ backup_folder'[clock] = before_second
                 /\ \A ts \in Timestamps \ {clock} :
                       backup_folder'[ts] = backup_folder[ts]
                 /\ \A ts \in Timestamps :
                       backup_folder'[ts] = before_first
                          => \/ before_first = before_second
                             \/ ts # clock /\ backup_folder[ts] = before_first]_vars

\* a second save has followed a save within the second second, both took
\* their backup, and the one backup of that second holds records that the
\* file before the first save did not hold; no backup is empty of records
C18_Witness ==
    /\ last.op = "save_expenses" /\ last.copy = "copied"
    /\ last.returned = "True"
    /\ last.follows_save /\ last.follows_backup
    /\ clock = 2
    /\ backup_folder[2].exists /\ backup_folder[2].rows # <<>>
    /\ backup_folder[2] # CsvFile(<<GoodRow>>)
    /\ ~backup_folder[1].exists

\* the operations of the manager that save the collection
ManagerSaves ==
    {"Manager.save_expenses", "add_expense", "clear_all_expenses",
     "generate_sample_data"}

\* C19 as stated: restore_backup changes the live file only, not the
\* manager's collection, its ReportGenerator or the backups; the manager's
\* next save, when its backup and its rewrite go through, writes the live
\* file from the collection in memory, and the restored content is then in a
\* backup and not in the live file.
C19_RestoreLeavesMemory ==
    [][/\ last'.op = "restore_backup"
            => /\ expenses' = expenses
               /\ report_generator' = report_generator
               /\ backup_folder' = backup_folder
       /\ (last.op = "restore_backup" /\ last.returned = "True"
             /\ last'.op \in ManagerSaves
             /\ last'.copy = "copied" /\ last'.rewrite = "ok")
            => /\ expenses_file' = WrittenFile(expenses')
               /\ last'.op = "Manager.save_expenses" => expenses' = expenses
               /\ last'.op = "add_expense"
                     => expenses' = Append(expenses, last'.arg)
               /\ \E ts \in Timestamps : backup_folder'[ts] = expenses_file
               /\ expenses_file' # expenses_file]_vars

\* C19 as amended: ... and the restored content is then in a backup, and in
\* the live file only when the collection written has that same content.
C19_RestoreOverwrittenBySave ==
    [][/\ last'.op = "restore_backup"
            => /\ expenses' = expenses
               /\ report_generator' = report_generator
               /\ backup_folder' = backup_folder
       /\ (last.op = "restore_backup" /\ last.returned = "True"
             /\ last'.op \in ManagerSaves
             /\ last'.copy = "copied" /\ last'.rewrite = "ok")
            => /\ expenses_file' = WrittenFile(expenses')
               /\ last'.op = "Manager.save_expenses" => expenses' = expenses
               /\ last'.op = "add_expense"
                     => expenses' = Append(expenses, last'.arg)
               /\ \E ts \in Timestamps : backup_folder'[ts] = expenses_file
               /\ expenses_file' = expenses_file
                     => expenses_file = WrittenFile(expenses')]_vars

\* the save on exit has followed a restore: the live file holds the
\* collection in memory, which has records, and the restored content, other
\* records, is in the backup the save took
C19_Witness ==
    /\ last.op = "Manager.save_expenses" /\ last.follows_restore
    /\ last.copy = "copied" /\ last.rewrite = "ok"
    /\ expenses # <<>>
    /\ expenses_file = WrittenFile(expenses)
    /\ backup_folder[clock].rows # <<>>
    /\ backup_folder[clock] # expenses_file

============================================================================
